---- MODULE Spec2Model ----
(***************************************************************************)
(* Model of mom6_tools/HorizontalMean.py: the two horizontal reducers      *)
(* HorizontalMeanRmse_da and HorizontalMeanDiff_da over labelled arrays,   *)
(* and the colour decision of plotPanel.                                   *)
(*                                                                         *)
(* Numbers are extended rationals [n, d, rt]:                              *)
(*   d > 0          the finite value n/d (reduced), or sqrt(n/d) if rt     *)
(*   d = 0, n = 0   NaN (the missing value of a float array)               *)
(*   d = 0, n = +-1 +-infinity                                             *)
(* Labelled arrays are records [dims, shape, vals] whose values are        *)
(* indexed by functions from dimension names to positions, so that         *)
(* arithmetic broadcasts by name and reductions are by name, as xarray     *)
(* does.  Reductions skip NaN (skipna), as xarray does for float data.     *)
(***************************************************************************)
EXTENDS Integers, Sequences, FiniteSets, TLC

\* inVar, inVar2, inDims, inWeights, inBasins: the data a caller holds and
\* passes as var, dims, weights, basins; call: the last call made; out: what
\* it returned or raised.  inSection, inFlows, inColorCode, inN: the
\* arguments of plotPanel; panel: what it drew.
VARIABLES inVar, inVar2, inDims, inWeights, inBasins, call, out,
          inSection, inFlows, inColorCode, inN, panel

vars == <<inVar, inVar2, inDims, inWeights, inBasins, call, out,
          inSection, inFlows, inColorCode, inN, panel>>

arrayVars == <<inVar, inVar2, inDims, inWeights, inBasins, call, out>>
plotVars == <<inSection, inFlows, inColorCode, inN, panel>>

(***************************************************************************)
(* Bounds of the checked instances.                                        *)
(***************************************************************************)
NT == 2
NZ == 2
NY == 2
NX == 2
MaxB == 2
MaxData == 2

(***************************************************************************)
(* Extended rational arithmetic (IEEE results for division by zero).       *)
(***************************************************************************)
Abs(k) == IF k < 0 THEN -k ELSE k

Sign(k) == IF k < 0 THEN -1 ELSE IF k > 0 THEN 1 ELSE 0

RECURSIVE GCD(_, _)
GCD(a, b) == IF b = 0 THEN a ELSE GCD(b, a % b)

Norm(n, d) ==
  IF d = 0 THEN [n |-> Sign(n), d |-> 0, rt |-> FALSE]
  ELSE LET g == GCD(Abs(n), Abs(d))
           s == Sign(d)
       IN  [n |-> (s * n) \div g, d |-> (s * d) \div g, rt |-> FALSE]

NaN == [n |-> 0, d |-> 0, rt |-> FALSE]
PosInf == [n |-> 1, d |-> 0, rt |-> FALSE]
NegInf == [n |-> -1, d |-> 0, rt |-> FALSE]
Num(k) == [n |-> k, d |-> 1, rt |-> FALSE]

IsNaN(a) == a.d = 0 /\ a.n = 0
IsInf(a) == a.d = 0 /\ a.n # 0
IsFinite(a) == a.d > 0

NumMul(a, b) == Norm(a.n * b.n, a.d * b.d)

NumAdd(a, b) ==
  IF a.d = 0 /\ b.d = 0
  THEN (IF a = b THEN a ELSE NaN)
  ELSE Norm(a.n * b.d + b.n * a.d, a.d * b.d)

\* faulty variant: a division that yields 0 instead of dividing by zero
NumDivGuarded(a, b) ==
  IF b.n = 0 THEN Num(0) ELSE Norm(a.n * b.d, a.d * b.n)

NumDiv(a, b) ==
  IF a.d = 0 /\ b.d # 0
  THEN (IF b.n = 0 THEN a ELSE Norm(a.n * Sign(b.n), 0))
  ELSE Norm(a.n * b.d, a.d * b.n)

IsSquare(k) == \E r \in 0..k : r * r = k
ISqrt(k) == CHOOSE r \in 0..k : r * r = k

\* np.sqrt: NaN for NaN and for negative arguments, inf for inf
NumSqrt(a) ==
  IF a.d = 0 THEN (IF a.n = 1 THEN PosInf ELSE NaN)
  ELSE IF a.n < 0 THEN NaN
  ELSE IF IsSquare(a.n) /\ IsSquare(a.d)
       THEN [n |-> ISqrt(a.n), d |-> ISqrt(a.d), rt |-> FALSE]
       ELSE [n |-> a.n, d |-> a.d, rt |-> TRUE]

RECURSIVE SumSet(_, _)
SumSet(S, f) ==
  IF S = {} THEN Num(0)
  ELSE LET i == CHOOSE j \in S : TRUE
       IN  NumAdd(f[i], SumSet(S \ {i}, f))

(***************************************************************************)
(* Labelled arrays.                                                        *)
(***************************************************************************)
Range(s) == {s[k] : k \in 1..Len(s)}

RECURSIVE MaxOf(_)
MaxOf(s) ==
  IF Len(s) = 0 THEN 0
  ELSE LET m == MaxOf(Tail(s)) IN IF Head(s) > m THEN Head(s) ELSE m

PosOf(ds, d) == CHOOSE k \in 1..Len(ds) : ds[k] = d

IdxSet(ds, shape) ==
  {i \in [Range(ds) -> 1..MaxOf(shape)] :
     \A k \in 1..Len(ds) : i[ds[k]] <= shape[k]}

Restrict(i, ds) == [d \in Range(ds) |-> i[d]]

DimLen(a, d) == a.shape[PosOf(a.dims, d)]

\* value at a position given in axis order (numpy indexing)
At(a, pos) == a.vals[[d \in Range(a.dims) |-> pos[PosOf(a.dims, d)]]]

\* dims of a binary operation: those of the left operand, then the new ones
UnionDims(a, b) == a.dims \o SelectSeq(b.dims, LAMBDA d : d \notin Range(a.dims))

UnionShape(a, b) ==
  LET ds == UnionDims(a, b)
  IN  [k \in 1..Len(ds) |->
         IF ds[k] \in Range(a.dims) THEN DimLen(a, ds[k]) ELSE DimLen(b, ds[k])]

ArrMul(a, b) ==
  LET ds == UnionDims(a, b)
      sh == UnionShape(a, b)
  IN  [dims |-> ds, shape |-> sh,
       vals |-> [i \in IdxSet(ds, sh) |->
                   NumMul(a.vals[Restrict(i, a.dims)], b.vals[Restrict(i, b.dims)])]]

ArrAdd(a, b) ==
  LET ds == UnionDims(a, b)
      sh == UnionShape(a, b)
  IN  [dims |-> ds, shape |-> sh,
       vals |-> [i \in IdxSet(ds, sh) |->
                   NumAdd(a.vals[Restrict(i, a.dims)], b.vals[Restrict(i, b.dims)])]]

ArrDiv(a, b) ==
  LET ds == UnionDims(a, b)
      sh == UnionShape(a, b)
  IN  [dims |-> ds, shape |-> sh,
       vals |-> [i \in IdxSet(ds, sh) |->
                   NumDiv(a.vals[Restrict(i, a.dims)], b.vals[Restrict(i, b.dims)])]]

ArrSquare(a) ==
  [dims |-> a.dims, shape |-> a.shape,
   vals |-> [i \in DOMAIN a.vals |-> NumMul(a.vals[i], a.vals[i])]]

ArrSqrt(a) ==
  [dims |-> a.dims, shape |-> a.shape,
   vals |-> [i \in DOMAIN a.vals |-> NumSqrt(a.vals[i])]]

\* faulty variant: the mask is broadcast but never applied
ArrWhereAll(a, m) ==
  LET ds == UnionDims(a, m)
      sh == UnionShape(a, m)
  IN  [dims |-> ds, shape |-> sh,
       vals |-> [i \in IdxSet(ds, sh) |-> a.vals[Restrict(i, a.dims)]]]

\* a.where(cond): keep a where the mask array m equals one, NaN elsewhere
ArrWhereOne(a, m) ==
  LET ds == UnionDims(a, m)
      sh == UnionShape(a, m)
  IN  [dims |-> ds, shape |-> sh,
       vals |-> [i \in IdxSet(ds, sh) |->
                   IF m.vals[Restrict(i, m.dims)] = Num(1)
                   THEN a.vals[Restrict(i, a.dims)] ELSE NaN]]

KeptDims(a, rd) == SelectSeq(a.dims, LAMBDA d : d \notin Range(rd))

KeptShape(a, rd) ==
  LET ds == KeptDims(a, rd) IN [k \in 1..Len(ds) |-> DimLen(a, ds[k])]

\* the positions of a that reduce into position j of the kept dims
Fibre(a, rd, j) ==
  LET red == SelectSeq(a.dims, LAMBDA d : d \in Range(rd))
      rsh == [k \in 1..Len(red) |-> DimLen(a, red[k])]
  IN  {[d \in Range(a.dims) |-> IF d \in DOMAIN j THEN j[d] ELSE r[d]] :
         r \in IdxSet(red, rsh)}

\* a.sum(dim=rd) with skipna: the NaN entries are left out, an empty sum is 0
ArrSum(a, rd) ==
  LET ds == KeptDims(a, rd)
      sh == KeptShape(a, rd)
  IN  [dims |-> ds, shape |-> sh,
       vals |-> [j \in IdxSet(ds, sh) |->
                   SumSet({i \in Fibre(a, rd, j) : ~IsNaN(a.vals[i])}, a.vals)]]

\* a.mean(dim=rd) with skipna: the mean of the entries that are not NaN
ArrMean(a, rd) ==
  LET ds == KeptDims(a, rd)
      sh == KeptShape(a, rd)
  IN  [dims |-> ds, shape |-> sh,
       vals |-> [j \in IdxSet(ds, sh) |->
                   LET S == {i \in Fibre(a, rd, j) : ~IsNaN(a.vals[i])}
                   IN  NumDiv(SumSet(S, a.vals), Num(Cardinality(S)))]]

(***************************************************************************)
(* Arguments and results of the reducers.                                  *)
(*   var      [dims, shape, vals, coords]   the field (time, layer, y, x)  *)
(*   weights  [given, isDA, dims, shape, vals]; given = FALSE is None      *)
(*   basins   [given, hasRegion, dims, shape, vals, region]                *)
(*   result   [err, dims, shape, vals, labels]; err = "none" on return     *)
(***************************************************************************)
NoWeights == [given |-> FALSE, isDA |-> FALSE, dims |-> <<>>, shape |-> <<>>, vals |-> <<>>]

NoBasins ==
  [given |-> FALSE, hasRegion |-> FALSE, dims |-> <<>>, shape |-> <<>>,
   vals |-> <<>>, region |-> <<>>]

Raise(e) == [err |-> e, dims |-> <<>>, shape |-> <<>>, vals |-> <<>>, labels |-> <<>>]

Return(a) ==
  [err |-> "none", dims |-> a.dims, shape |-> a.shape, vals |-> a.vals, labels |-> <<>>]

\* str() of a region value
DigitStr == <<"0", "1", "2", "3", "4", "5", "6", "7", "8", "9">>
Str(k) == DigitStr[k + 1]

\* faulty variant: new keys are put in front
OdPutFront(od, key, val) ==
  IF \E k \in 1..Len(od) : od[k].key = key
  THEN [k \in 1..Len(od) |-> IF od[k].key = key THEN [key |-> key, val |-> val] ELSE od[k]]
  ELSE <<[key |-> key, val |-> val]>> \o od

\* rmask_od[key] = val on an OrderedDict kept as a sequence of entries
OdPut(od, key, val) ==
  IF \E k \in 1..Len(od) : od[k].key = key
  THEN [k \in 1..Len(od) |-> IF od[k].key = key THEN [key |-> key, val |-> val] ELSE od[k]]
  ELSE Append(od, [key |-> key, val |-> val])

\* basins.sel(region=reg).values: the 2-D mask of the region, by position
SelRegion(basins, reg) ==
  LET r == PosOf(basins.region, reg)
  IN  [p \in (1..basins.shape[2]) \X (1..basins.shape[3]) |->
         At(basins, <<r, p[1], p[2]>>)]

\* faulty variant: the mask reaches the first layer only
Region3dTopLayer(var, basins, reg) ==
  LET tmp == SelRegion(basins, reg)
      ds == Tail(var.dims)
      sh == <<DimLen(var, "z_l"), basins.shape[2], basins.shape[3]>>
  IN  [dims |-> ds, shape |-> sh,
       vals |-> [i \in IdxSet(ds, sh) |->
                   IF i[ds[1]] = 1 THEN tmp[<<i[ds[2]], i[ds[3]]>>] ELSE Num(0)]]

\* np.repeat of the 2-D mask over len(var.z_l) layers, labelled var.dims[1::]
Region3d(var, basins, reg) ==
  LET tmp == SelRegion(basins, reg)
      ds == Tail(var.dims)
      sh == <<DimLen(var, "z_l"), basins.shape[2], basins.shape[3]>>
  IN  [dims |-> ds, shape |-> sh,
       vals |-> [i \in IdxSet(ds, sh) |-> tmp[<<i[ds[2]], i[ds[3]]>>]]]

\* the checks made before anything is computed in the regional branch, and
\* the attribute reads of its loop (var.z_l, var.yh, var.xh, weights.where)
RegionalPrecheck(var, weights, basins) ==
  IF ~basins.hasRegion THEN "NoRegionCoord"
  ELSE IF Len(weights.shape) # 3 THEN "WeightsNot3D"
  ELSE IF ~({"z_l", "yh", "xh"} \subseteq var.coords) THEN "AttributeError"
  ELSE IF ~weights.isDA THEN "AttributeError"
  ELSE "none"

\* out = zeros((len(basins.region), var.shape[0], var.shape[1])) filled from
\* the values of rmask_od in insertion order
CollectBasins(var, basins, od) ==
  IF Len(od) # Len(basins.region) THEN Raise("CoordSizeConflict")
  ELSE IF \E k \in 1..Len(od) : od[k].val.shape # <<var.shape[1], var.shape[2]>>
  THEN Raise("ShapeMismatch")
  ELSE LET ds == <<basins.dims[1], var.dims[1], var.dims[2]>>
           sh == <<Len(basins.region), var.shape[1], var.shape[2]>>
       IN  [err |-> "none", dims |-> ds, shape |-> sh,
            vals |-> [i \in IdxSet(ds, sh) |->
                        At(od[i[ds[1]]].val, <<i[ds[2]], i[ds[3]]>>)],
            labels |-> [k \in 1..Len(od) |-> od[k].key]]

(***************************************************************************)
(* HorizontalMeanRmse_da                                                   *)
(***************************************************************************)
RmseGlobal(var, dims, weights) ==
  LET total_weights == ArrSum(weights, dims)
  IN  ArrSqrt(ArrDiv(ArrSum(ArrMul(ArrSquare(var), weights), dims), total_weights))

RmseRegion(var, dims, weights, basins, reg) ==
  LET region3d == Region3d(var, basins, reg)
      tmp_weights == ArrWhereOne(weights, region3d)
      total_weights == ArrSum(tmp_weights, dims)
  IN  ArrSqrt(ArrDiv(ArrSum(ArrMul(ArrSquare(var), tmp_weights), dims), total_weights))

RECURSIVE RmseLoop(_, _, _, _, _, _)
RmseLoop(var, dims, weights, basins, k, rmask_od) ==
  IF k > Len(basins.region) THEN rmask_od
  ELSE RmseLoop(var, dims, weights, basins, k + 1,
                OdPut(rmask_od, Str(basins.region[k]),
                      RmseRegion(var, dims, weights, basins, basins.region[k])))

\* faulty variant: basins without weights are not rejected
RmseNoCombinationCheck(var, dims, weights, basins) ==
  IF dims[1] \notin Range(var.dims) THEN Raise("MissingDim")
  ELSE IF dims[2] \notin Range(var.dims) THEN Raise("MissingDim")
  ELSE IF ~weights.given THEN Return(ArrSqrt(ArrMean(ArrSquare(var), dims)))
  ELSE IF ~basins.given
  THEN IF ~weights.isDA THEN Raise("WeightsNotDataArray")
       ELSE IF dims[1] \notin Range(weights.dims) THEN Raise("MissingDim")
       ELSE IF dims[2] \notin Range(weights.dims) THEN Raise("MissingDim")
       ELSE Return(RmseGlobal(var, dims, weights))
  ELSE LET pre == RegionalPrecheck(var, weights, basins)
       IN  IF pre # "none" THEN Raise(pre)
           ELSE CollectBasins(var, basins, RmseLoop(var, dims, weights, basins, 1, <<>>))

HorizontalMeanRmse_da(var, dims, weights, basins) ==
  IF dims[1] \notin Range(var.dims) THEN Raise("MissingDim")
  ELSE IF dims[2] \notin Range(var.dims) THEN Raise("MissingDim")
  ELSE IF basins.given /\ ~weights.given THEN Raise("BasinsNeedWeights")
  ELSE IF ~weights.given THEN Return(ArrSqrt(ArrMean(ArrSquare(var), dims)))
  ELSE IF ~basins.given
  THEN IF ~weights.isDA THEN Raise("WeightsNotDataArray")
       ELSE IF dims[1] \notin Range(weights.dims) THEN Raise("MissingDim")
       ELSE IF dims[2] \notin Range(weights.dims) THEN Raise("MissingDim")
       ELSE Return(RmseGlobal(var, dims, weights))
  ELSE LET pre == RegionalPrecheck(var, weights, basins)
       IN  IF pre # "none" THEN Raise(pre)
           ELSE CollectBasins(var, basins, RmseLoop(var, dims, weights, basins, 1, <<>>))

(***************************************************************************)
(* HorizontalMeanDiff_da                                                   *)
(***************************************************************************)
\* faulty variant: the field is squared before it is averaged
DiffGlobalQuadratic(var, dims, weights) ==
  LET total_weights == ArrSum(weights, dims)
  IN  ArrDiv(ArrSum(ArrMul(ArrSquare(var), weights), dims), total_weights)

DiffGlobal(var, dims, weights) ==
  LET total_weights == ArrSum(weights, dims)
  IN  ArrDiv(ArrSum(ArrMul(var, weights), dims), total_weights)

DiffRegion(var, dims, weights, basins, reg) ==
  LET region3d == Region3d(var, basins, reg)
      tmp_weights == ArrWhereOne(weights, region3d)
      total_weights == ArrSum(tmp_weights, dims)
  IN  ArrDiv(ArrSum(ArrMul(var, tmp_weights), dims), total_weights)

RECURSIVE DiffLoop(_, _, _, _, _, _)
DiffLoop(var, dims, weights, basins, k, rmask_od) ==
  IF k > Len(basins.region) THEN rmask_od
  ELSE DiffLoop(var, dims, weights, basins, k + 1,
                OdPut(rmask_od, Str(basins.region[k]),
                      DiffRegion(var, dims, weights, basins, basins.region[k])))

\* faulty variant: basins without weights are rejected before the field's
\* dims are looked at
DiffChecksCombinationFirst(var, dims, weights, basins) ==
  IF basins.given /\ ~weights.given THEN Raise("BasinsNeedWeights")
  ELSE IF dims[1] \notin Range(var.dims) THEN Raise("MissingDim")
  ELSE IF dims[2] \notin Range(var.dims) THEN Raise("MissingDim")
  ELSE IF ~weights.given THEN Return(ArrMean(var, dims))
  ELSE IF ~basins.given
  THEN IF ~weights.isDA THEN Raise("WeightsNotDataArray")
       ELSE IF dims[1] \notin Range(weights.dims) THEN Raise("MissingDim")
       ELSE IF dims[2] \notin Range(weights.dims) THEN Raise("MissingDim")
       ELSE Return(DiffGlobal(var, dims, weights))
  ELSE LET pre == RegionalPrecheck(var, weights, basins)
       IN  IF pre # "none" THEN Raise(pre)
           ELSE CollectBasins(var, basins, DiffLoop(var, dims, weights, basins, 1, <<>>))

HorizontalMeanDiff_da(var, dims, weights, basins) ==
  IF dims[1] \notin Range(var.dims) THEN Raise("MissingDim")
  ELSE IF dims[2] \notin Range(var.dims) THEN Raise("MissingDim")
  ELSE IF basins.given /\ ~weights.given THEN Raise("BasinsNeedWeights")
  ELSE IF ~weights.given THEN Return(ArrMean(var, dims))
  ELSE IF ~basins.given
  THEN IF ~weights.isDA THEN Raise("WeightsNotDataArray")
       ELSE IF dims[1] \notin Range(weights.dims) THEN Raise("MissingDim")
       ELSE IF dims[2] \notin Range(weights.dims) THEN Raise("MissingDim")
       ELSE Return(DiffGlobal(var, dims, weights))
  ELSE LET pre == RegionalPrecheck(var, weights, basins)
       IN  IF pre # "none" THEN Raise(pre)
           ELSE CollectBasins(var, basins, DiffLoop(var, dims, weights, basins, 1, <<>>))

(***************************************************************************)
(* The data the calls are made on.                                         *)
(***************************************************************************)
FieldDims == <<"time", "z_l", "yh", "xh">>
FieldShape == <<NT, NZ, NY, NX>>

NoCell == <<0, 0>>
Cells == (1..NY) \X (1..NX)

\* the cells that are made special: three corners of the domain
MarkCells == {<<1, 1>>, <<1, NX>>, <<NY, NX>>}

\* A residual field: a horizontal pattern (uniform 1, or the column number),
\* at most one cell of it missing, offset by 2 per time step and 1 per layer
FieldKinds == [base : {"uniform", "xramp"}, hole : {NoCell} \cup MarkCells]

MkField(ds, k) ==
  [dims |-> ds, shape |-> FieldShape, coords |-> Range(ds),
   vals |-> [i \in IdxSet(ds, FieldShape) |->
               IF <<i[ds[3]], i[ds[4]]>> = k.hole THEN NaN
               ELSE Num((IF k.base = "uniform" THEN 1 ELSE i[ds[4]])
                        + 2 * (i[ds[1]] - 1) + (i[ds[2]] - 1))]]

\* Weights: ones, or columns of alternating sign, with at most one cell of
\* the first layer missing or zero; the layers below the first are all ones
WeightKinds ==
  [base : {"ones", "altsign"}, cell : {NoCell}, to : {"nan"}] \cup
  [base : {"ones", "altsign"}, cell : MarkCells, to : {"nan", "zero"}]

WeightAt(k, z, y, x) ==
  IF z > 1 THEN Num(1)
  ELSE IF <<y, x>> = k.cell THEN (IF k.to = "nan" THEN NaN ELSE Num(0))
  ELSE IF k.base = "ones" \/ x % 2 = 1 THEN Num(1)
  ELSE Num(-1)

MkWeights(ds, k) ==
  LET sh == [j \in 1..Len(ds) |->
               CASE ds[j] = "time" -> NT
                 [] ds[j] = "z_l" -> NZ
                 [] ds[j] \in {"yh", "yq"} -> NY
                 [] OTHER -> NX]
      Pos(i, d) == IF d \in Range(ds) THEN i[d] ELSE 1
  IN  [given |-> TRUE, isDA |-> TRUE, dims |-> ds, shape |-> sh,
       vals |-> [i \in IdxSet(ds, sh) |->
                   WeightAt(k, Pos(i, "z_l"),
                            IF "yh" \in Range(ds) THEN i["yh"] ELSE Pos(i, "yq"),
                            IF "xh" \in Range(ds) THEN i["xh"] ELSE Pos(i, "xq"))]]

\* Basin masks: one to MaxB regions, each the whole domain, its first
\* column, the other columns, or no cell: a run of consecutive entries of
\* the cycle MaskCycle.  No two regions share a value.
MaskCycle == <<"all", "left", "right", "none">>
RegionValues == <<3, 1, 4, 2, 5, 7, 6>>

BasinKinds ==
  {[k \in 1..b |-> MaskCycle[((s + k - 2) % Len(MaskCycle)) + 1]] :
     s \in 1..Len(MaskCycle), b \in 1..MaxB}

MaskAt(t, y, x) ==
  IF t = "all" \/ (t = "left" /\ x = 1) \/ (t = "right" /\ x > 1) THEN Num(1) ELSE Num(0)

MkBasins(m, hasRegion) ==
  LET ds == <<"region", "yh", "xh">>
      sh == <<Len(m), NY, NX>>
  IN  [given |-> TRUE, hasRegion |-> hasRegion, dims |-> ds, shape |-> sh,
       vals |-> [i \in IdxSet(ds, sh) |-> MaskAt(m[i["region"]], i["yh"], i["xh"])],
       region |-> [k \in 1..Len(m) |-> RegionValues[k]]]

NotCalled == [fn |-> "none", fld |-> "var", w |-> FALSE, b |-> FALSE]
Pending == Raise("pending")

\* no figure is touched by the reducers
NoYlim == [given |-> FALSE, lim |-> <<>>]
NoSection == [label |-> "", time |-> <<>>, data |-> <<>>, ylim |-> NoYlim]
NoFlows == [given |-> FALSE, map |-> <<>>]
NoPanel ==
  [drawn |-> FALSE, err |-> "none", subplot |-> 0, color |-> "", title |-> "",
   line |-> <<>>, meanText |-> <<>>, obsText |-> <<>>, ylim |-> NoYlim,
   ylabel |-> ""]

PlotIdle ==
  /\ inSection = NoSection
  /\ inFlows = NoFlows
  /\ inColorCode = FALSE
  /\ inN = 0
  /\ panel = NoPanel

(***************************************************************************)
(* The calls.                                                              *)
(***************************************************************************)
Arg(useW, useB, w, b) ==
  [weights |-> IF useW THEN w ELSE NoWeights, basins |-> IF useB THEN b ELSE NoBasins]

FieldOf(fld) ==
  CASE fld = "var" -> inVar
    [] fld = "var2" -> inVar2
    [] OTHER -> [inVar EXCEPT !.vals = ArrAdd(inVar, inVar2).vals]

CallRmse(useW, useB) ==
  /\ call = NotCalled
  /\ call' = [fn |-> "rmse", fld |-> "var", w |-> useW, b |-> useB]
  /\ out' = HorizontalMeanRmse_da(inVar, inDims,
                                  Arg(useW, useB, inWeights, inBasins).weights,
                                  Arg(useW, useB, inWeights, inBasins).basins)
  /\ UNCHANGED <<inVar, inVar2, inDims, inWeights, inBasins>>
  /\ UNCHANGED plotVars

CallDiff(fld, useW, useB) ==
  /\ call = NotCalled
  /\ call' = [fn |-> "diff", fld |-> fld, w |-> useW, b |-> useB]
  /\ out' = HorizontalMeanDiff_da(FieldOf(fld), inDims,
                                  Arg(useW, useB, inWeights, inBasins).weights,
                                  Arg(useW, useB, inWeights, inBasins).basins)
  /\ UNCHANGED <<inVar, inVar2, inDims, inWeights, inBasins>>
  /\ UNCHANGED plotVars

(***************************************************************************)
(* SpecVal: both reducers on well-formed data, in the three modes          *)
(* (unweighted, weighted global, weighted per basin).                      *)
(***************************************************************************)
Modes == {<<FALSE, FALSE>>, <<TRUE, FALSE>>, <<TRUE, TRUE>>}

InitVal ==
  /\ \E k \in FieldKinds : inVar = MkField(FieldDims, k)
  /\ inVar2 = inVar
  /\ inDims = <<"yh", "xh">>
  /\ \E k \in WeightKinds : inWeights = MkWeights(<<"z_l", "yh", "xh">>, k)
  /\ \E m \in BasinKinds : inBasins = MkBasins(m, TRUE)
  /\ call = NotCalled
  /\ out = Pending
  /\ PlotIdle

RmseVal == \E m \in Modes : CallRmse(m[1], m[2])
DiffVal == \E m \in Modes : CallDiff("var", m[1], m[2])

NextVal == RmseVal \/ DiffVal

SpecVal == InitVal /\ [][NextVal]_vars

(***************************************************************************)
(* Reference quantities for the properties of SpecVal, written cell by     *)
(* cell on the caller's data (field on time, z_l, yh, xh; weights on z_l,  *)
(* yh, xh; masks on region, yh, xh).                                       *)
(***************************************************************************)
F(t, z, c) == inVar.vals[[time |-> t, z_l |-> z, yh |-> c[1], xh |-> c[2]]]
W(z, c) == inWeights.vals[[z_l |-> z, yh |-> c[1], xh |-> c[2]]]
InBasin(b) == {c \in Cells : inBasins.vals[[region |-> b, yh |-> c[1], xh |-> c[2]]] = Num(1)}

Times == 1..NT
Layers == 1..NZ
NBasins == Len(inBasins.region)

\* sum over the cells S of the weights that are not missing
TotalWeight(S, z) ==
  SumSet({c \in S : ~IsNaN(W(z, c))}, [c \in S |-> W(z, c)])

\* sum over the cells S of field * weight, products that are missing left out
WeightedSum(S, t, z) ==
  LET g == [c \in S |-> NumMul(F(t, z, c), W(z, c))]
  IN  SumSet({c \in S : ~IsNaN(g[c])}, g)

\* the same for field^2 * weight
WeightedSquares(S, t, z) ==
  LET g == [c \in S |-> NumMul(NumMul(F(t, z, c), F(t, z, c)), W(z, c))]
  IN  SumSet({c \in S : ~IsNaN(g[c])}, g)

\* the ratio p/q of two finite sums, q # 0, and its square root
Ratio(p, q) == Norm(p.n * q.d, p.d * q.n)

Root(r) ==
  IF r.n < 0 THEN NaN
  ELSE IF IsSquare(r.n) /\ IsSquare(r.d)
       THEN [n |-> ISqrt(r.n), d |-> ISqrt(r.d), rt |-> FALSE]
       ELSE [n |-> r.n, d |-> r.d, rt |-> TRUE]

Called(fn, useW, useB) == call = [fn |-> fn, fld |-> "var", w |-> useW, b |-> useB]

GlobalAt(t, z) == out.vals[[time |-> t, z_l |-> z]]
BasinAt(b, t, z) == out.vals[[region |-> b, time |-> t, z_l |-> z]]

\* C1: with weights on both dims and no basins, HorizontalMeanRmse_da is
\* sqrt(sum(f^2 w) / sum(w)) at every (time, layer), and when every weight
\* is 1 it equals the unweighted HorizontalMeanRmse_da(f)
C1_WeightedRmseAndUnitWeights ==
  Called("rmse", TRUE, FALSE) =>
    /\ out.err = "none"
    /\ \A t \in Times, z \in Layers :
         TotalWeight(Cells, z).n # 0 =>
           GlobalAt(t, z) = Root(Ratio(WeightedSquares(Cells, t, z), TotalWeight(Cells, z)))
    /\ (\A i \in DOMAIN inWeights.vals : inWeights.vals[i] = Num(1)) =>
         out.vals = HorizontalMeanRmse_da(inVar, inDims, NoWeights, NoBasins).vals

\* C2: in basin mode the result has shape (B, time-length, layer-count), the
\* label at position i is the string of the i-th region value, and the values
\* at position i are the reduction computed for the i-th region
C2_BasinShapeLabelsOrder ==
  (call.fn # "none" /\ call.w /\ call.b) =>
    /\ out.err = "none"
    /\ out.shape = <<NBasins, inVar.shape[1], inVar.shape[2]>>
    /\ out.dims = <<"region", "time", "z_l">>
    /\ Len(out.labels) = NBasins
    /\ \A i \in 1..NBasins :
         /\ out.labels[i] = Str(inBasins.region[i])
         /\ \A t \in Times, z \in Layers :
              BasinAt(i, t, z) =
                IF call.fn = "rmse"
                THEN At(RmseRegion(inVar, inDims, inWeights, inBasins,
                                   inBasins.region[i]), <<t, z>>)
                ELSE At(DiffRegion(inVar, inDims, inWeights, inBasins,
                                   inBasins.region[i]), <<t, z>>)

C2_Witness ==
  /\ Called("rmse", TRUE, TRUE)
  /\ out.err = "none"
  /\ NBasins = 2
  /\ out.labels = <<"3", "1">>
  /\ BasinAt(1, 2, 1) # BasinAt(2, 2, 1)

\* the caller's field and weights with every cell outside S replaced
FieldOutside(S, v) ==
  [inVar EXCEPT !.vals = [i \in DOMAIN inVar.vals |->
     IF <<i["yh"], i["xh"]>> \in S THEN inVar.vals[i] ELSE v]]

WeightsOutside(S, v) ==
  [inWeights EXCEPT !.vals = [i \in DOMAIN inWeights.vals |->
     IF <<i["yh"], i["xh"]>> \in S THEN inWeights.vals[i] ELSE v]]

RegionResult(fn, v, w, reg) ==
  IF fn = "rmse" THEN RmseRegion(v, inDims, w, inBasins, reg)
  ELSE DiffRegion(v, inDims, w, inBasins, reg)

SliceOf(b) ==
  [dims |-> <<"time", "z_l">>, shape |-> <<NT, NZ>>,
   vals |-> [j \in IdxSet(<<"time", "z_l">>, <<NT, NZ>>) |->
               BasinAt(b, j["time"], j["z_l"])]]

\* the 2x2 scenario: field [[1,2],[1,2]], weights all 1, basins left / right
Scenario ==
  /\ FieldShape[3] = 2 /\ FieldShape[4] = 2
  /\ \A c \in Cells : F(1, 1, c) = Num(c[2]) /\ W(1, c) = Num(1)
  /\ NBasins = 2
  /\ InBasin(1) = {<<1, 1>>, <<2, 1>>}
  /\ InBasin(2) = {<<1, 2>>, <<2, 2>>}

\* C3: in basin mode each basin's result is the weighted kernel over the
\* cells whose mask is 1 alone, and does not change when field or weights
\* change outside the basin; in the 2x2 scenario HorizontalMeanDiff_da gives
\* 1 for the first basin and 2 for the second
C3_BasinUsesOnlyMaskedCells ==
  (call.fn # "none" /\ call.w /\ call.b) =>
    /\ out.err = "none"
    /\ \A b \in 1..NBasins, t \in Times, z \in Layers :
         TotalWeight(InBasin(b), z).n # 0 =>
           BasinAt(b, t, z) =
             IF call.fn = "rmse"
             THEN Root(Ratio(WeightedSquares(InBasin(b), t, z), TotalWeight(InBasin(b), z)))
             ELSE Ratio(WeightedSum(InBasin(b), t, z), TotalWeight(InBasin(b), z))
    /\ \A b \in 1..NBasins :
         RegionResult(call.fn, FieldOutside(InBasin(b), Num(7)),
                      WeightsOutside(InBasin(b), Num(5)),
                      inBasins.region[b]).vals = SliceOf(b).vals
    /\ (Scenario /\ call.fn = "diff") =>
         BasinAt(1, 1, 1) = Num(1) /\ BasinAt(2, 1, 1) = Num(2)

C3_Witness ==
  /\ Called("diff", TRUE, TRUE)
  /\ Scenario
  /\ BasinAt(1, 1, 1) = Num(1)
  /\ BasinAt(2, 1, 1) = Num(2)

\* C4: a basin whose mask is 1 on every cell gets, at its position, the
\* global (basins=None) weighted result of the same reducer
C4_WholeDomainBasinIsGlobal ==
  (call.fn # "none" /\ call.w /\ call.b) =>
    \A b \in 1..NBasins :
      InBasin(b) = Cells =>
        LET g == IF call.fn = "rmse"
                 THEN HorizontalMeanRmse_da(inVar, inDims, inWeights, NoBasins)
                 ELSE HorizontalMeanDiff_da(inVar, inDims, inWeights, NoBasins)
        IN  /\ g.err = "none"
            /\ out.err = "none"
            /\ \A t \in Times, z \in Layers :
                 BasinAt(b, t, z) = g.vals[[time |-> t, z_l |-> z]]

C4_Witness ==
  /\ Called("rmse", TRUE, TRUE)
  /\ NBasins = 2
  /\ InBasin(2) = Cells
  /\ InBasin(1) # Cells
  /\ IsFinite(BasinAt(2, 1, 1))
  /\ BasinAt(2, 1, 1) # BasinAt(1, 1, 1)

\* the cells that reduce into an output position, and the value there
CellsOf(b) == IF call.b THEN InBasin(b) ELSE Cells
Positions == IF call.b THEN 1..NBasins ELSE {0}
ValueAt(b, t, z) == IF call.b THEN BasinAt(b, t, z) ELSE GlobalAt(t, z)

Numerator(b, t, z) ==
  IF call.fn = "rmse" THEN WeightedSquares(CellsOf(b), t, z)
  ELSE WeightedSum(CellsOf(b), t, z)

Kernel(b, t, z) ==
  IF call.fn = "rmse"
  THEN Root(Ratio(Numerator(b, t, z), TotalWeight(CellsOf(b), z)))
  ELSE Ratio(Numerator(b, t, z), TotalWeight(CellsOf(b), z))

NoNegativeWeight(S, z) == \A c \in S : W(z, c).n >= 0

\* C7 as stated: in weighted global mode and in basin mode, where the total
\* weight of a position is zero the call still succeeds and the output there
\* is the missing value; the other positions keep their computed values
C7_ZeroTotalGivesMissing ==
  (call.fn # "none" /\ call.w) =>
    /\ out.err = "none"
    /\ \A b \in Positions, t \in Times, z \in Layers :
         IF TotalWeight(CellsOf(b), z).n = 0
         THEN IsNaN(ValueAt(b, t, z))
         ELSE ValueAt(b, t, z) = Kernel(b, t, z)

\* C7 amended: where the total weight is zero the call still succeeds and
\* the output there is not a finite number: the missing value when the
\* weighted sum is zero too (always so when no weight is negative), else
\* +-infinity for HorizontalMeanDiff_da and +infinity or the missing value
\* for HorizontalMeanRmse_da; the other positions keep their computed values
C7_ZeroTotalGivesNonFinite ==
  (call.fn # "none" /\ call.w) =>
    /\ out.err = "none"
    /\ \A b \in Positions, t \in Times, z \in Layers :
         IF TotalWeight(CellsOf(b), z).n = 0
         THEN /\ ~IsFinite(ValueAt(b, t, z))
              /\ Numerator(b, t, z).n = 0 => IsNaN(ValueAt(b, t, z))
              /\ NoNegativeWeight(CellsOf(b), z) => Numerator(b, t, z).n = 0
              /\ (Numerator(b, t, z).n # 0 /\ call.fn = "diff") =>
                   ValueAt(b, t, z) = Norm(Numerator(b, t, z).n, 0)
              /\ (Numerator(b, t, z).n > 0 /\ call.fn = "rmse") =>
                   ValueAt(b, t, z) = PosInf
              /\ (Numerator(b, t, z).n < 0 /\ call.fn = "rmse") =>
                   IsNaN(ValueAt(b, t, z))
         ELSE ValueAt(b, t, z) = Kernel(b, t, z)

C7_Witness ==
  /\ Called("diff", TRUE, TRUE)
  /\ out.err = "none"
  /\ NBasins = 2
  /\ TotalWeight(InBasin(1), 1).n = 0
  /\ IsNaN(BasinAt(1, 1, 1))
  /\ TotalWeight(InBasin(2), 1).n = 0
  /\ IsInf(BasinAt(2, 1, 1))
  /\ IsFinite(BasinAt(2, 1, 2))

(***************************************************************************)
(* SpecLinear: HorizontalMeanDiff_da with weights and no basins on two     *)
(* fields and on their sum.                                                *)
(***************************************************************************)
InitLinear ==
  /\ \E k \in FieldKinds : inVar = MkField(FieldDims, k)
  /\ \E k \in FieldKinds : inVar2 = MkField(FieldDims, k)
  /\ inDims = <<"yh", "xh">>
  /\ \E k \in WeightKinds : inWeights = MkWeights(<<"z_l", "yh", "xh">>, k)
  /\ inBasins = MkBasins(<<"all">>, TRUE)
  /\ call = NotCalled
  /\ out = Pending
  /\ PlotIdle

DiffOfFirst == CallDiff("var", TRUE, FALSE)
DiffOfSecond == CallDiff("var2", TRUE, FALSE)
DiffOfSum == CallDiff("sum", TRUE, FALSE)

NextLinear == DiffOfFirst \/ DiffOfSecond \/ DiffOfSum

SpecLinear == InitLinear /\ [][NextLinear]_vars

DiffOf(v) == HorizontalMeanDiff_da(v, inDims, inWeights, NoBasins).vals

\* C8 as stated: HorizontalMeanDiff_da(f1+f2, weights=w) equals
\* HorizontalMeanDiff_da(f1, weights=w) + HorizontalMeanDiff_da(f2, weights=w)
\* at every (time, layer), for all fields f1, f2 and every w
C8_DiffIsLinear ==
  (call.fn = "diff" /\ call.fld = "sum") =>
    /\ out.err = "none"
    /\ \A t \in Times, z \in Layers :
         GlobalAt(t, z) = NumAdd(DiffOf(inVar)[[time |-> t, z_l |-> z]],
                                 DiffOf(inVar2)[[time |-> t, z_l |-> z]])

SameMissing ==
  \A i \in DOMAIN inVar.vals : IsNaN(inVar.vals[i]) <=> IsNaN(inVar2.vals[i])

\* C8 amended: for fields f1, f2 that are missing at the same cells, the
\* equality holds at every (time, layer) where the total weight is not zero;
\* where the total weight is zero neither side is a finite number
C8_DiffIsLinearSameMissing ==
  (call.fn = "diff" /\ call.fld = "sum" /\ SameMissing) =>
    /\ out.err = "none"
    /\ \A t \in Times, z \in Layers :
         LET rhs == NumAdd(DiffOf(inVar)[[time |-> t, z_l |-> z]],
                           DiffOf(inVar2)[[time |-> t, z_l |-> z]])
         IN  IF TotalWeight(Cells, z).n # 0
             THEN IsFinite(rhs) /\ GlobalAt(t, z) = rhs
             ELSE ~IsFinite(rhs) /\ ~IsFinite(GlobalAt(t, z))

C8_Witness ==
  /\ call.fn = "diff" /\ call.fld = "sum"
  /\ SameMissing
  /\ inVar # inVar2
  /\ \E i \in DOMAIN inVar.vals : IsNaN(inVar.vals[i])
  /\ \E c \in Cells : IsNaN(W(1, c))
  /\ TotalWeight(Cells, 1).n # 0
  /\ IsFinite(GlobalAt(1, 1))
  /\ GlobalAt(1, 1).n # 0

(***************************************************************************)
(* SpecArgs: both reducers on every combination of dimension names,        *)
(* weights kind and rank, region coordinate, and optional arguments.       *)
(***************************************************************************)
FieldDimsChoices ==
  <<<<"time", "z_l", "yh", "xh">>, <<"time", "z_l", "yq", "xh">>,
    <<"time", "z_l", "yh", "xq">>>>

DimsChoices == <<<<"yh", "xh">>, <<"yq", "xh">>, <<"yh", "xq">>>>

WeightDimsChoices ==
  <<<<"time", "z_l", "yh">>, <<"z_l", "yh", "xh">>, <<"yh", "xh">>,
    <<"z_l", "yh">>, <<"z_l", "yq", "xh">>>>

PlainField == [base |-> "xramp", hole |-> NoCell]
PlainWeights == [base |-> "ones", cell |-> NoCell, to |-> "nan"]

\* a numpy array in place of a DataArray: a shape and values, no named dims
NotDataArray(w) == [w EXCEPT !.isDA = FALSE]

WeightsChoices ==
  [k \in 1..Len(WeightDimsChoices) |-> MkWeights(WeightDimsChoices[k], PlainWeights)]
  \o <<NotDataArray(MkWeights(<<"yh", "xh">>, PlainWeights)),
       NotDataArray(MkWeights(<<"z_l", "yh", "xh">>, PlainWeights))>>

BasinsChoices ==
  <<MkBasins(<<"left", "right">>, TRUE), MkBasins(<<"all">>, TRUE),
    MkBasins(<<"left", "right">>, FALSE), MkBasins(<<"all">>, FALSE)>>

InitArgs ==
  /\ \E k \in 1..Len(FieldDimsChoices) : inVar = MkField(FieldDimsChoices[k], PlainField)
  /\ inVar2 = inVar
  /\ \E k \in 1..Len(DimsChoices) : inDims = DimsChoices[k]
  /\ \E k \in 1..Len(WeightsChoices) : inWeights = WeightsChoices[k]
  /\ \E k \in 1..Len(BasinsChoices) : inBasins = BasinsChoices[k]
  /\ call = NotCalled
  /\ out = Pending
  /\ PlotIdle

RmseArgs == \E useW \in BOOLEAN, useB \in BOOLEAN : CallRmse(useW, useB)
DiffArgs == \E useW \in BOOLEAN, useB \in BOOLEAN : CallDiff("var", useW, useB)

NextArgs == RmseArgs \/ DiffArgs

SpecArgs == InitArgs /\ [][NextArgs]_vars

FieldLacksDim == \E k \in 1..2 : inDims[k] \notin Range(inVar.dims)
WeightsLackDim == \E k \in 1..2 : inDims[k] \notin Range(inWeights.dims)

\* C5: whenever a name in dims is absent from the field, or weights are
\* passed and a name in dims is absent from them, the call raises the
\* missing-dimension error and returns nothing, in every mode
C5_MissingDimAlwaysRaises ==
  (call.fn # "none"
     /\ (FieldLacksDim \/ (call.w /\ inWeights.isDA /\ WeightsLackDim))) =>
    out.err = "MissingDim"

\* C6 as stated: every call with basins and without weights ends in the
\* invalid-combination error, whatever the other arguments are
C6_BasinsWithoutWeightsRaises ==
  (call.fn # "none" /\ call.b /\ ~call.w) => out.err = "BasinsNeedWeights"

\* C6 amended: every call with basins and without weights ends in an error
\* and returns nothing: the invalid-combination error when both names of
\* dims are on the field, the missing-dimension error (raised first) if not
C6_BasinsWithoutWeightsNeverReturns ==
  (call.fn # "none" /\ call.b /\ ~call.w) =>
    out.err = IF FieldLacksDim THEN "MissingDim" ELSE "BasinsNeedWeights"

C6_Witness ==
  /\ Called("rmse", FALSE, TRUE)
  /\ ~FieldLacksDim
  /\ inBasins.hasRegion
  /\ out.err = "BasinsNeedWeights"
  /\ out.vals = <<>>

\* the error the documented order of checks selects, "later" when all pass
CheckOrder ==
  IF FieldLacksDim THEN "MissingDim"
  ELSE IF call.b /\ ~call.w THEN "BasinsNeedWeights"
  ELSE IF ~call.w THEN "none"
  ELSE IF ~call.b
  THEN IF ~inWeights.isDA THEN "WeightsNotDataArray"
       ELSE IF WeightsLackDim THEN "MissingDim"
       ELSE "none"
  ELSE IF ~inBasins.hasRegion THEN "NoRegionCoord"
  ELSE IF Len(inWeights.shape) # 3 THEN "WeightsNot3D"
  ELSE "later"

CheckErrors ==
  {"MissingDim", "BasinsNeedWeights", "WeightsNotDataArray", "NoRegionCoord",
   "WeightsNot3D"}

OtherReducer ==
  LET a == Arg(call.w, call.b, inWeights, inBasins)
  IN  IF call.fn = "rmse"
      THEN HorizontalMeanDiff_da(inVar, inDims, a.weights, a.basins)
      ELSE HorizontalMeanRmse_da(inVar, inDims, a.weights, a.basins)

\* C10: on every combination of inputs the two reducers raise the same
\* error, selected by the same order of checks (field dims, basins without
\* weights, then weights type and weights dims in global mode, region
\* coordinate and 3-D weights in basin mode), or both return results of the
\* same shape and labels
C10_SameContract ==
  call.fn # "none" =>
    /\ OtherReducer.err = out.err
    /\ OtherReducer.dims = out.dims
    /\ OtherReducer.shape = out.shape
    /\ OtherReducer.labels = out.labels
    /\ DOMAIN OtherReducer.vals = DOMAIN out.vals
    /\ IF CheckOrder = "later" THEN out.err \notin CheckErrors
       ELSE out.err = CheckOrder

C10_Witness ==
  /\ Called("diff", TRUE, TRUE)
  /\ out.err = "none"
  /\ out.labels = <<"3", "1">>
  /\ out.shape = <<2, NT, NZ>>

(***************************************************************************)
(* plotPanel                                                               *)
(*   section        [label, time, data, ylim]                              *)
(*   observedFlows  [given, map]: a dict from labels to a scalar or a      *)
(*                  tuple, [isTuple, v]; given = FALSE is the default None *)
(***************************************************************************)
RECURSIVE SeqSum(_)
SeqSum(q) == IF Len(q) = 0 THEN 0 ELSE Head(q) + SeqSum(Tail(q))

RECURSIVE MinOf(_)
MinOf(q) ==
  IF Len(q) = 1 THEN Head(q)
  ELSE LET m == MinOf(Tail(q)) IN IF Head(q) < m THEN Head(q) ELSE m

\* section.data.mean()
DataMean(section) == Norm(SeqSum(section.data), Len(section.data))

\* a <= b on finite numbers
NumLE(a, b) == a.n * b.d <= b.n * a.d

\* '{0:.2f}'.format(x): x rounded to hundredths, ties to even
Format2f(x) ==
  LET a == 100 * x.n
      q == a \div x.d
      r == a % x.d
  IN  IF 2 * r < x.d THEN q
      ELSE IF 2 * r > x.d THEN q + 1
      ELSE IF q % 2 = 0 THEN q ELSE q + 1

Grey == "#c3c3c3"
Green == "#90ee90"
Red == "#f26161"

\* faulty variant: the tuple is read as (min, max) in the order given
LineColorOrdered(section, observedFlows, colorCode) ==
  IF section.label \in DOMAIN observedFlows.map
       /\ observedFlows.map[section.label].isTuple /\ colorCode
  THEN LET obs == observedFlows.map[section.label].v
       IN  IF NumLE(Num(obs[1]), DataMean(section))
                /\ NumLE(DataMean(section), Num(obs[Len(obs)]))
           THEN Green ELSE Red
  ELSE Grey

\* the colour of the plotted line
LineColor(section, observedFlows, colorCode) ==
  IF section.label \in DOMAIN observedFlows.map
       /\ observedFlows.map[section.label].isTuple /\ colorCode
  THEN LET obs == observedFlows.map[section.label].v
       IN  IF NumLE(Num(MinOf(obs)), DataMean(section))
                /\ NumLE(DataMean(section), Num(MaxOf(obs)))
           THEN Green ELSE Red
  ELSE Grey

\* the text of the observed reference, <<>> when there is none
ObsLabel(section, observedFlows) ==
  IF section.label \in DOMAIN observedFlows.map
  THEN LET f == observedFlows.map[section.label]
       IN  IF f.isTuple THEN <<Str(MinOf(f.v)), " to ", Str(MaxOf(f.v))>>
           ELSE <<Str(f.v[1])>>
  ELSE <<>>

plotPanel(section, n, observedFlows, colorCode) ==
  IF ~observedFlows.given
  THEN [NoPanel EXCEPT !.drawn = TRUE, !.err = "AttributeError", !.subplot = n + 1]
  ELSE [drawn |-> TRUE, err |-> "none", subplot |-> n + 1,
        color |-> LineColor(section, observedFlows, colorCode),
        line |-> <<section.time, section.data>>,
        title |-> section.label,
        meanText |-> <<"Mean = ", Format2f(DataMean(section))>>,
        obsText |-> IF ObsLabel(section, observedFlows) = <<>> THEN <<>>
                    ELSE <<"Obs. = ">> \o ObsLabel(section, observedFlows),
        ylim |-> section.ylim,
        ylabel |-> IF n \in {1, 4, 7, 10, 13, 16} THEN "Transport (Sv)" ELSE ""]

(***************************************************************************)
(* SpecPlot: one call of plotPanel.                                        *)
(***************************************************************************)
DataValues == {0, 2, 3}
DataSeqs == UNION {[1..k -> DataValues] : k \in 1..MaxData}

FlowChoices ==
  {[isTuple |-> FALSE, v |-> <<2>>], [isTuple |-> TRUE, v |-> <<1, 2>>],
   [isTuple |-> TRUE, v |-> <<3, 1>>]}

FlowsChoices ==
  {NoFlows, [given |-> TRUE, map |-> <<>>]} \cup
  {[given |-> TRUE, map |-> [l \in {"Agulhas"} |-> f]] : f \in FlowChoices}

InitPlot ==
  /\ inVar = <<>> /\ inVar2 = <<>> /\ inDims = <<>>
  /\ inWeights = NoWeights /\ inBasins = NoBasins
  /\ call = NotCalled /\ out = Pending
  /\ \E l \in {"Agulhas", "Drake"}, d \in DataSeqs,
        y \in {NoYlim, [given |-> TRUE, lim |-> <<100, 200>>]} :
       inSection = [label |-> l, time |-> [k \in 1..Len(d) |-> k], data |-> d, ylim |-> y]
  /\ inN \in {0, 1}
  /\ inFlows \in FlowsChoices
  /\ inColorCode \in BOOLEAN
  /\ panel = NoPanel

PlotPanel ==
  /\ ~panel.drawn
  /\ panel' = plotPanel(inSection, inN, inFlows, inColorCode)
  /\ UNCHANGED <<inSection, inFlows, inColorCode, inN>>
  /\ UNCHANGED arrayVars

NextPlot == PlotPanel

SpecPlot == InitPlot /\ [][NextPlot]_vars

HasRange ==
  /\ inSection.label \in DOMAIN inFlows.map
  /\ inFlows.map[inSection.label].isTuple

\* min <= mean <= max, with the mean as sum / count
MeanInRange ==
  LET obs == inFlows.map[inSection.label].v
      k == Len(inSection.data)
  IN  /\ \E e \in Range(obs) : e * k <= SeqSum(inSection.data)
      /\ \E e \in Range(obs) : SeqSum(inSection.data) <= e * k

Plotted == panel.drawn /\ panel.err = "none"

\* C9 as stated: the line is green when range colouring is enabled and the
\* mean lies within the observed range of the section's label, and red
\* otherwise; the colour is always green or red
C9_GreenOrRed ==
  Plotted =>
    /\ panel.color = IF inColorCode /\ HasRange /\ MeanInRange THEN Green ELSE Red
    /\ panel.color \in {Green, Red}

\* C9 amended: when the section's label has an observed (min, max) tuple
\* and range colouring is enabled, the line is green if min <= mean <= max
\* and red if not; in every other case (no observed value for the label, a
\* scalar observed value, or range colouring disabled) the line keeps the
\* default grey
C9_GreenRedOrGrey ==
  Plotted =>
    panel.color = IF inColorCode /\ HasRange
                  THEN (IF MeanInRange THEN Green ELSE Red)
                  ELSE Grey

C9_Witness ==
  /\ Plotted
  /\ inColorCode
  /\ HasRange
  /\ inFlows.map[inSection.label].v = <<3, 1>>
  /\ Len(inSection.data) = 2
  /\ panel.color = Green
  /\ panel.meanText = <<"Mean = ", 250>>

====
